---- MODULE Spec2Model ----
(***************************************************************************)
(* Model of clickhouse_backup.clickhouse.client.Client: construction with  *)
(* target validation, the destination clause builder, the BACKUP/RESTORE   *)
(* statement builder and the status reader.                                *)
(*                                                                         *)
(* Optional values (Python's Optional[...]) are encoded as sequences:      *)
(* None is <<>> and a present value v is <<v>>.  A statement is the        *)
(* sequence of the string fragments the f-strings concatenate, in order.   *)
(***************************************************************************)
EXTENDS Integers, Sequences, FiniteSets, TLC

VARIABLES
    constructed,            \* "no" | "yes" | "failed": outcome of Client(...)
    ctor_args,              \* the arguments the constructor was called with
    ctor_error,             \* the error the constructor raised, "" if none
    backup_target,          \* self.backup_target
    backup_dir,             \* self.backup_dir
    _disk,                  \* self._disk
    _s3_endpoint,           \* self._s3_endpoint
    _s3_access_key_id,      \* self._s3_access_key_id
    _s3_secret_access_key,  \* self._s3_secret_access_key
    _client,                \* self._client: id of the connection held, 0 if none
    connections,            \* number of connections opened so far
    ncalls,                 \* number of backup/restore/status calls made
    last                    \* the most recent call: arguments and outcome

vars == <<constructed, ctor_args, ctor_error, backup_target, backup_dir, _disk,
          _s3_endpoint, _s3_access_key_id, _s3_secret_access_key, _client,
          connections, ncalls, last>>

config == <<backup_target, backup_dir, _disk, _s3_endpoint, _s3_access_key_id,
            _s3_secret_access_key>>

-----------------------------------------------------------------------------
(* Bounds *)

MaxCalls == 2           \* calls made on a client before the model stops
MaxRows == 2            \* longest row list the status query returns

-----------------------------------------------------------------------------
(* Optional values and Python truthiness *)

None == <<>>
Some(v) == <<v>>

\* bool(x) for an Optional[str]: None and '' are falsy.
TruthyStr(x) == x # None /\ x[1] # ""

\* bool(x) for an Optional[list]: None and [] are falsy.
TruthyList(x) == x # None /\ Len(x[1]) > 0

\* bool(x) for an optional value object (Backup/FullBackup): only None is falsy.
TruthyObj(x) == x # None

\* str(x) as an f-string replacement field renders it.
Format(x) == IF x = None THEN "None" ELSE x[1]

\* sep.join(list)
RECURSIVE join(_, _)
join(sep, list) ==
    IF Len(list) = 0 THEN <<>>
    ELSE IF Len(list) = 1 THEN <<list[1]>>
    ELSE <<list[1], sep>> \o join(sep, Tail(list))

-----------------------------------------------------------------------------
(* BackupTarget and the environment *)

FILE == "File"
DISK == "Disk"
S3 == "S3"
BackupTarget == {FILE, DISK, S3}

\* A backup_target argument that is no member of the enumeration (e.g. None).
UnsetTarget == "None"

\* Directories present on the local filesystem.
ExistingDirs == {"/backups"}

isdir(path) == Format(path) \in ExistingDirs

-----------------------------------------------------------------------------
(* Errors *)

NoError == [type |-> "", msg |-> ""]
ValueError(msg) == [type |-> "ValueError", msg |-> msg]
FileNotFoundError(msg) == [type |-> "FileNotFoundError", msg |-> msg]

-----------------------------------------------------------------------------
(* Client.__init__ *)

\* A validation that forgets the last S3 requirement.
ValidationErrorNoSecretKey(a) ==
    IF a.backup_target = FILE THEN
        IF ~TruthyStr(a.backup_dir) THEN ValueError("backup_dir")
        ELSE IF ~isdir(a.backup_dir) THEN FileNotFoundError("backup_dir")
        ELSE NoError
    ELSE IF a.backup_target = DISK THEN
        IF ~TruthyStr(a.disk) THEN ValueError("disk") ELSE NoError
    ELSE IF a.backup_target = S3 THEN
        IF ~TruthyStr(a.s3_endpoint) THEN ValueError("s3_endpoint")
        ELSE IF ~TruthyStr(a.s3_access_key_id) THEN ValueError("s3_access_key_id")
        ELSE NoError
    ELSE NoError

\* The match statement that validates the arguments of the selected target;
\* NoError when it falls through.
ValidationError(a) ==
    IF a.backup_target = FILE THEN
        IF ~TruthyStr(a.backup_dir) THEN ValueError("backup_dir")
        ELSE IF ~isdir(a.backup_dir) THEN FileNotFoundError("backup_dir")
        ELSE NoError
    ELSE IF a.backup_target = DISK THEN
        IF ~TruthyStr(a.disk) THEN ValueError("disk") ELSE NoError
    ELSE IF a.backup_target = S3 THEN
        IF ~TruthyStr(a.s3_endpoint) THEN ValueError("s3_endpoint")
        ELSE IF ~TruthyStr(a.s3_access_key_id) THEN ValueError("s3_access_key_id")
        ELSE IF ~TruthyStr(a.s3_secret_access_key) THEN ValueError("s3_secret_access_key")
        ELSE NoError
    ELSE NoError

\* _connect opens a new connection: the count of opened connections after it.
\* The new connection is identified by that count.
_connect(opened) == opened + 1

\* A constructor that opens the connection before it validates.
InitConnectsEagerly(a) == TRUE

\* Whether __init__ reaches self._client = self._connect() with arguments a.
InitConnects(a) == ValidationError(a) = NoError

ClientInit(a) ==
    /\ constructed = "no"
    /\ ctor_args' = Some(a)
    /\ ctor_error' = ValidationError(a)
    /\ IF InitConnects(a)
         THEN /\ connections' = _connect(connections)
              /\ _client' = _connect(connections)
         ELSE UNCHANGED <<connections, _client>>
    /\ IF ValidationError(a) = NoError
         THEN /\ constructed' = "yes"
              /\ backup_target' = a.backup_target
              /\ backup_dir' = a.backup_dir
              /\ _disk' = a.disk
              /\ _s3_endpoint' = a.s3_endpoint
              /\ _s3_access_key_id' = a.s3_access_key_id
              /\ _s3_secret_access_key' = a.s3_secret_access_key
         ELSE /\ constructed' = "failed"
              /\ UNCHANGED config
    /\ UNCHANGED <<ncalls, last>>

-----------------------------------------------------------------------------
(* Client._get_backup_path *)

\* A builder whose Disk clause names the directory instead of the disk.
_get_backup_path_DiskUsesDir(file_path) ==
    IF backup_target = FILE THEN
        [error |-> NoError,
         clause |-> <<"File('", Format(backup_dir), "/", file_path, "')">>]
    ELSE IF backup_target = DISK THEN
        [error |-> NoError,
         clause |-> <<"Disk('", Format(backup_dir), "', '", file_path, "')">>]
    ELSE IF backup_target = S3 THEN
        [error |-> NoError,
         clause |-> <<"S3('", Format(_s3_endpoint), "/", file_path, "', '",
                      Format(_s3_access_key_id), "', '",
                      Format(_s3_secret_access_key), "')">>]
    ELSE [error |-> ValueError("Invalid backup target"), clause |-> <<>>]

\* A builder without the default case: it returns None for an unknown target.
_get_backup_path_NoDefaultCase(file_path) ==
    IF backup_target = FILE THEN
        [error |-> NoError,
         clause |-> <<"File('", Format(backup_dir), "/", file_path, "')">>]
    ELSE IF backup_target = DISK THEN
        [error |-> NoError,
         clause |-> <<"Disk('", Format(_disk), "', '", file_path, "')">>]
    ELSE IF backup_target = S3 THEN
        [error |-> NoError,
         clause |-> <<"S3('", Format(_s3_endpoint), "/", file_path, "', '",
                      Format(_s3_access_key_id), "', '",
                      Format(_s3_secret_access_key), "')">>]
    ELSE [error |-> NoError, clause |-> <<Format(None)>>]

\* The destination clause for file_path under the client's configuration, or
\* the error raised for a target outside the enumeration.
_get_backup_path(file_path) ==
    IF backup_target = FILE THEN
        [error |-> NoError,
         clause |-> <<"File('", Format(backup_dir), "/", file_path, "')">>]
    ELSE IF backup_target = DISK THEN
        [error |-> NoError,
         clause |-> <<"Disk('", Format(_disk), "', '", file_path, "')">>]
    ELSE IF backup_target = S3 THEN
        [error |-> NoError,
         clause |-> <<"S3('", Format(_s3_endpoint), "/", file_path, "', '",
                      Format(_s3_access_key_id), "', '",
                      Format(_s3_secret_access_key), "')">>]
    ELSE [error |-> ValueError("Invalid backup target"), clause |-> <<>>]

-----------------------------------------------------------------------------
(* The session: clickhouse_driver's Client.execute *)

\* What the server does with a statement: it yields rows or it fails.
Returns(rows) == [raised |-> FALSE, error |-> NoError, rows |-> rows]
Raises(type) == [raised |-> TRUE, error |-> [type |-> type, msg |-> "remote"],
                 rows |-> <<>>]

-----------------------------------------------------------------------------
(* Client._backup_command *)

DefaultIgnored == <<"system", "INFORMATION_SCHEMA", "information_schema">>

\* ignored_databases or [...]: the list the all-databases branch works with.
IgnoredOrDefault(ignored_databases) ==
    IF TruthyList(ignored_databases) THEN ignored_databases[1] ELSE DefaultIgnored

\* An if/elif chain that tests database before dictionary.
ObjectClauseDatabaseFirst(c) ==
    IF TruthyStr(c.table) THEN
        [error |-> NoError, clause |-> <<"TABLE ", c.table[1], " ">>]
    ELSE IF TruthyStr(c.database) THEN
        [error |-> NoError, clause |-> <<"DATABASE ", c.database[1], " ">>]
    ELSE IF TruthyStr(c.dictionary) THEN
        [error |-> NoError, clause |-> <<"DICTIONARY ", c.dictionary[1], " ">>]
    ELSE IF TruthyStr(c.temporary_table) THEN
        [error |-> NoError,
         clause |-> <<"TEMPORARY TABLE ", c.temporary_table[1], " ">>]
    ELSE IF TruthyStr(c.view) THEN
        [error |-> NoError, clause |-> <<"VIEW ", c.view[1], " ">>]
    ELSE IF Len(IgnoredOrDefault(c.ignored_databases)) = 0 THEN
        [error |-> ValueError("ignored_databases"), clause |-> <<>>]
    ELSE
        [error |-> NoError,
         clause |-> <<"ALL EXCEPT DATABASES ">>
                    \o join(", ", IgnoredOrDefault(c.ignored_databases))
                    \o <<" ">>]

\* The if/elif chain: the object clause, or the error of the else branch.
ObjectClause(c) ==
    IF TruthyStr(c.table) THEN
        [error |-> NoError, clause |-> <<"TABLE ", c.table[1], " ">>]
    ELSE IF TruthyStr(c.dictionary) THEN
        [error |-> NoError, clause |-> <<"DICTIONARY ", c.dictionary[1], " ">>]
    ELSE IF TruthyStr(c.database) THEN
        [error |-> NoError, clause |-> <<"DATABASE ", c.database[1], " ">>]
    ELSE IF TruthyStr(c.temporary_table) THEN
        [error |-> NoError,
         clause |-> <<"TEMPORARY TABLE ", c.temporary_table[1], " ">>]
    ELSE IF TruthyStr(c.view) THEN
        [error |-> NoError, clause |-> <<"VIEW ", c.view[1], " ">>]
    ELSE IF Len(IgnoredOrDefault(c.ignored_databases)) = 0 THEN
        [error |-> ValueError("ignored_databases"), clause |-> <<>>]
    ELSE
        [error |-> NoError,
         clause |-> <<"ALL EXCEPT DATABASES ">>
                    \o join(", ", IgnoredOrDefault(c.ignored_databases))
                    \o <<" ">>]

\* A target clause that writes TO for a restore as well.
TargetClauseAlwaysTo(c) ==
    [error |-> _get_backup_path(c.backup.path).error,
     clause |-> <<"TO ">> \o _get_backup_path(c.backup.path).clause \o <<" ">>]

\* TO/FROM and the destination clause of the primary backup's path.
TargetClause(c) ==
    [error |-> _get_backup_path(c.backup.path).error,
     clause |-> <<IF c.is_backup THEN "TO " ELSE "FROM ">>
                \o _get_backup_path(c.backup.path).clause \o <<" ">>]

\* The SETTINGS suffix, empty without a base backup.
BaseClause(c) ==
    IF TruthyObj(c.base_backup) THEN
        [error |-> _get_backup_path(c.base_backup[1].path).error,
         clause |-> <<"SETTINGS base_backup = ">>
                    \o _get_backup_path(c.base_backup[1].path).clause \o <<" ">>]
    ELSE [error |-> NoError, clause |-> <<>>]

\* The statement as assembled up to the call of execute, or the first error
\* raised on the way.
BuildQuery(c) ==
    IF ObjectClause(c).error # NoError THEN
        [error |-> ObjectClause(c).error, query |-> <<>>]
    ELSE IF TargetClause(c).error # NoError THEN
        [error |-> TargetClause(c).error, query |-> <<>>]
    ELSE IF BaseClause(c).error # NoError THEN
        [error |-> BaseClause(c).error, query |-> <<>>]
    ELSE
        [error |-> NoError,
         query |-> <<IF c.is_backup THEN "BACKUP " ELSE "RESTORE ">>
                   \o ObjectClause(c).clause
                   \o TargetClause(c).clause
                   \o BaseClause(c).clause]

\* The outcome of a call: whether and what it raised, what it returned, and
\* the statements it handed to the session, each with the connection used.
Outcome(error, result, submitted) ==
    [raised |-> error # NoError, error |-> error, result |-> result,
     submitted |-> submitted]

\* A _backup_command that runs the statement again when the server fails.
_backup_command_Retry(c, server) ==
    IF BuildQuery(c).error # NoError THEN
        Outcome(BuildQuery(c).error, <<>>, <<>>)
    ELSE IF server.raised THEN
        Outcome(server.error, server.rows,
                <<[conn |-> _client, query |-> BuildQuery(c).query],
                  [conn |-> _client, query |-> BuildQuery(c).query]>>)
    ELSE
        Outcome(server.error, server.rows,
                <<[conn |-> _client, query |-> BuildQuery(c).query]>>)

\* A _backup_command that opens a connection of its own for the statement.
_backup_command_Reconnect(c, server) ==
    IF BuildQuery(c).error # NoError THEN
        Outcome(BuildQuery(c).error, <<>>, <<>>)
    ELSE
        Outcome(server.error, server.rows,
                <<[conn |-> _connect(connections),
                   query |-> BuildQuery(c).query]>>)

\* The whole of _backup_command; server is what execute does with the statement.
_backup_command(c, server) ==
    IF BuildQuery(c).error # NoError THEN
        Outcome(BuildQuery(c).error, <<>>, <<>>)
    ELSE
        Outcome(server.error, server.rows,
                <<[conn |-> _client, query |-> BuildQuery(c).query]>>)

backup(c, server) ==
    _backup_command([backup |-> c.backup, is_backup |-> TRUE,
                     table |-> c.table, dictionary |-> c.dictionary,
                     database |-> c.database,
                     temporary_table |-> c.temporary_table, view |-> c.view,
                     ignored_databases |-> c.ignored_databases,
                     base_backup |-> c.base_backup], server)

restore(c, server) ==
    _backup_command([backup |-> c.backup, is_backup |-> FALSE,
                     table |-> c.table, dictionary |-> c.dictionary,
                     database |-> c.database,
                     temporary_table |-> c.temporary_table, view |-> c.view,
                     ignored_databases |-> c.ignored_databases,
                     base_backup |-> c.base_backup], server)

-----------------------------------------------------------------------------
(* Client.get_backup_status *)

\* The literal of line 236; the back-quotes around system are not written, a
\* TLA+ string cannot hold them.
StatusQuery == <<"SELECT * FROM system.backups">>

\* A status reader that drops the first row.
get_backup_status_SkipFirst(server) ==
    Outcome(server.error,
            IF Len(server.rows) = 0 THEN <<>> ELSE Tail(server.rows),
            <<[conn |-> _client, query |-> StatusQuery]>>)

get_backup_status(server) ==
    Outcome(server.error, server.rows,
            <<[conn |-> _client, query |-> StatusQuery]>>)

-----------------------------------------------------------------------------
(* Inputs *)

ParamNames == {"backup_dir", "disk", "s3_endpoint", "s3_access_key_id",
               "s3_secret_access_key"}

\* The parameters __init__ demands for a target.
Required(target) ==
    IF target = FILE THEN {"backup_dir"}
    ELSE IF target = DISK THEN {"disk"}
    ELSE IF target = S3
      THEN {"s3_endpoint", "s3_access_key_id", "s3_secret_access_key"}
    ELSE {}

Nominal == [backup_dir |-> Some("/backups"), disk |-> Some("backup_disk"),
            s3_endpoint |-> Some("https://s3.example.com/bucket"),
            s3_access_key_id |-> Some("AK"),
            s3_secret_access_key |-> Some("SK")]

OptStr(v) == {None, Some(""), v}

AllCtorInputs ==
    [backup_target : BackupTarget \cup {UnsetTarget},
     backup_dir : OptStr(Nominal.backup_dir) \cup {Some("/missing")},
     disk : OptStr(Nominal.disk),
     s3_endpoint : OptStr(Nominal.s3_endpoint),
     s3_access_key_id : OptStr(Nominal.s3_access_key_id),
     s3_secret_access_key : OptStr(Nominal.s3_secret_access_key)]

\* Constructor arguments: the selected target's own parameters range over
\* absent, empty and present; the other targets' parameters are all left out
\* or all given.
CtorInputs ==
    {a \in AllCtorInputs :
        \/ \A f \in ParamNames \ Required(a.backup_target) : a[f] = None
        \/ \A f \in ParamNames \ Required(a.backup_target) : a[f] = Nominal[f]}

Backups == {[path |-> "2024"]}
FullBackups == {[path |-> "2023"]}

IgnoredLists == {<<>>, <<"db1", "db2">>}

AllCallInputs ==
    [backup : Backups,
     table : {None, Some(""), Some("t")},
     dictionary : {None, Some("d")},
     database : {None, Some("mydb")},
     temporary_table : {None, Some("tmp")},
     view : {None, Some("v")},
     ignored_databases : {None} \cup {Some(l) : l \in IgnoredLists},
     base_backup : {None} \cup {Some(b) : b \in FullBackups}]

Objects(c) ==
    {p \in {"table", "dictionary", "database", "temporary_table", "view"} :
        TruthyStr(c[p])}

\* Call arguments: every combination of the five object parameters; an
\* ignored_databases list is passed in the calls that name at most one object.
CallInputs ==
    {c \in AllCallInputs :
        Cardinality(Objects(c)) > 1 => c.ignored_databases = None}

RowValues == {"r1", "r2"}

RECURSIVE RowLists(_)
RowLists(n) ==
    IF n = 0 THEN {<<>>}
    ELSE RowLists(n - 1)
         \cup {Append(l, r) : l \in {m \in RowLists(n - 1) : Len(m) = n - 1},
                              r \in RowValues}

\* What the server may do with a BACKUP/RESTORE statement.
CommandServer == {Returns(<<>>), Returns(<<"r1">>), Raises("ServerError")}

\* What the server may do with the status query.
StatusServer ==
    {Returns(rows) : rows \in RowLists(MaxRows)}
    \cup {Raises("ServerError"), Raises("NetworkError")}

-----------------------------------------------------------------------------
(* The state machine *)

NoCall == [op |-> "none", args |-> None, server |-> None,
           outcome |-> Outcome(NoError, <<>>, <<>>)]

Init ==
    /\ constructed = "no"
    /\ ctor_args = None
    /\ ctor_error = NoError
    /\ backup_target = UnsetTarget
    /\ backup_dir = None
    /\ _disk = None
    /\ _s3_endpoint = None
    /\ _s3_access_key_id = None
    /\ _s3_secret_access_key = None
    /\ _client = 0
    /\ connections = 0
    /\ ncalls = 0
    /\ last = NoCall

Construct == \E a \in CtorInputs : ClientInit(a)

\* A call on the constructed client: it records the call; a statement
\* submitted through a connection other than the one held is a connection
\* newly opened.  The client's fields are not assigned.
Call(op, args, server, outcome) ==
    /\ constructed = "yes"
    /\ ncalls < MaxCalls
    /\ last' = [op |-> op, args |-> args,
                server |-> IF Len(outcome.submitted) = 0 THEN None
                           ELSE Some(server),
                outcome |-> outcome]
    /\ ncalls' = ncalls + 1
    /\ connections' = connections
                      + Cardinality({i \in DOMAIN outcome.submitted :
                                       outcome.submitted[i].conn # _client})
    /\ UNCHANGED <<constructed, ctor_args, ctor_error, config, _client>>

Backup ==
    \E c \in CallInputs, server \in CommandServer :
        Call("backup", Some(c), server, backup(c, server))

Restore ==
    \E c \in CallInputs, server \in CommandServer :
        Call("restore", Some(c), server, restore(c, server))

GetBackupStatus ==
    \E server \in StatusServer :
        Call("get_backup_status", None, server, get_backup_status(server))

Next == Construct \/ Backup \/ Restore \/ GetBackupStatus

Spec == Init /\ [][Next]_vars

-----------------------------------------------------------------------------
(* Vocabulary of the properties *)

IsCommand == last.op \in {"backup", "restore"}

\* The arguments of the last backup/restore call, as _backup_command got them.
LastCommand == [is_backup |-> last.op = "backup"] @@ last.args[1]

Submitted == last.outcome.submitted

Positions(q, tokens) == {i \in DOMAIN q : q[i] \in tokens}

ObjectKeywords == {"TABLE ", "DICTIONARY ", "DATABASE ", "TEMPORARY TABLE ",
                   "VIEW ", "ALL EXCEPT DATABASES "}

\* The string a sequence of fragments spells.
RECURSIVE Concat(_)
Concat(q) == IF Len(q) = 0 THEN "" ELSE q[1] \o Concat(Tail(q))

\* The fragments of q from position i up to the next single blank.
UpToBlank(q, i) ==
    SubSeq(q, i, CHOOSE j \in i .. Len(q) :
                    /\ q[j] = " "
                    /\ \A k \in i .. (j - 1) : q[k] # " ")

NonEmptyParams ==
    {f \in ParamNames :
        TruthyStr([backup_dir |-> backup_dir, disk |-> _disk,
                   s3_endpoint |-> _s3_endpoint,
                   s3_access_key_id |-> _s3_access_key_id,
                   s3_secret_access_key |-> _s3_secret_access_key][f])}

-----------------------------------------------------------------------------
(* Properties *)

\* C1: a backup call that names no object (table, dictionary, database,
\* temporary_table and view all absent) and passes an explicit empty
\* ignored_databases list fails with an error and submits no statement.
C1_EmptyIgnoredListFails ==
    (/\ last.op = "backup"
     /\ \A p \in {"table", "dictionary", "database", "temporary_table", "view"} :
           last.args[1][p] = None
     /\ last.args[1].ignored_databases = Some(<<>>))
    => (last.outcome.raised /\ Submitted = <<>>)

\* C2: constructing a Client whose selected target lacks a requirement fails
\* with no connection opened: File without backup_dir and Disk without disk
\* and S3 without endpoint, access key or secret key raise ValueError, File
\* with a backup_dir that is no existing directory raises FileNotFoundError.
C2_InvalidConfigFailsUnconnected ==
    constructed # "no" =>
        LET a == ctor_args[1]
            Missing(x) == x = None \/ x = Some("")
            Fails(type) == /\ constructed = "failed"
                           /\ ctor_error.type = type
                           /\ connections = 0
                           /\ _client = 0
        IN  /\ (a.backup_target = "File" /\ Missing(a.backup_dir))
                  => Fails("ValueError")
            /\ (a.backup_target = "File" /\ ~Missing(a.backup_dir)
                  /\ a.backup_dir[1] \notin ExistingDirs)
                  => Fails("FileNotFoundError")
            /\ (a.backup_target = "Disk" /\ Missing(a.disk))
                  => Fails("ValueError")
            /\ (a.backup_target = "S3"
                  /\ (Missing(a.s3_endpoint) \/ Missing(a.s3_access_key_id)
                        \/ Missing(a.s3_secret_access_key)))
                  => Fails("ValueError")

\* C2 witness: a File client refused for a backup_dir that does not exist.
C2_Witness ==
    /\ constructed = "failed"
    /\ ctor_args[1].backup_target = "File"
    /\ ctor_args[1].backup_dir = Some("/missing")
    /\ ctor_error.type = "FileNotFoundError"
    /\ connections = 0

\* C3 as stated: in every state of a constructed Client the non-empty
\* parameters are exactly those its target requires, and calls leave the
\* target and the parameters as constructed.
C3_ExactlyRequiredNonEmpty ==
    constructed = "yes" =>
        /\ NonEmptyParams = Required(backup_target)
        /\ backup_target = ctor_args[1].backup_target

\* C3 amended: in every state of a constructed Client every parameter its
\* target requires is non-empty (parameters of other targets are kept as
\* given, empty or not), and the target and all parameters are those the
\* constructor was given, whatever calls were made.
C3_RequiredNonEmptyAndUnchanged ==
    constructed = "yes" =>
        /\ Required(backup_target) \subseteq NonEmptyParams
        /\ backup_target = ctor_args[1].backup_target
        /\ backup_dir = ctor_args[1].backup_dir
        /\ _disk = ctor_args[1].disk
        /\ _s3_endpoint = ctor_args[1].s3_endpoint
        /\ _s3_access_key_id = ctor_args[1].s3_access_key_id
        /\ _s3_secret_access_key = ctor_args[1].s3_secret_access_key

\* C3 witness: an S3 client after two calls, the last one a restore.
C3_Witness ==
    /\ constructed = "yes"
    /\ backup_target = "S3"
    /\ ncalls >= 2
    /\ last.op = "restore"
    /\ NonEmptyParams = Required("S3")

C5_KeywordsAndBaseSuffix ==
    (IsCommand /\ Submitted # <<>>) =>
        LET q == Submitted[1].query
            c == last.args[1]
            isb == last.op = "backup"
            heads == Positions(q, {"BACKUP ", "RESTORE "})
            dirs == Positions(q, {"TO ", "FROM "})
            sets == Positions(q, {"SETTINGS base_backup = "})
            to == CHOOSE i \in dirs : TRUE
            st == CHOOSE i \in sets : TRUE
            Dest(path) == _get_backup_path(path).clause \o <<" ">>
        IN  /\ heads = {1}
            /\ q[1] = IF isb THEN "BACKUP " ELSE "RESTORE "
            /\ Cardinality(dirs) = 1
            /\ q[to] = IF isb THEN "TO " ELSE "FROM "
            /\ UpToBlank(q, to + 1) = Dest(c.backup.path)
            /\ (sets # {}) <=> (c.base_backup # None)
            /\ c.base_backup # None =>
                  /\ sets = {to + 1 + Len(Dest(c.backup.path))}
                  /\ SubSeq(q, st + 1, Len(q)) = Dest(c.base_backup[1].path)
            /\ c.base_backup = None =>
                  Len(q) = to + Len(Dest(c.backup.path))

\* C5 witness: a restore with a base backup whose statement was submitted.
C5_Witness ==
    /\ last.op = "restore"
    /\ last.args[1].base_backup # None
    /\ Submitted # <<>>
    /\ Submitted[1].query[1] = "RESTORE "
    /\ Positions(Submitted[1].query, {"SETTINGS base_backup = "}) # {}

\* C6: the destination clause of a path is fixed by the configured target:
\* File('<backup_dir>/<path>'), Disk('<disk>', '<path>') or
\* S3('<endpoint>/<path>', '<access_key>', '<secret_key>'), with the values
\* put in unchanged and no other target's parameters used; this is the clause
\* that follows TO/FROM in a submitted statement.
C6_DestinationClauseByTarget ==
    (constructed = "yes" /\ backup_target \in {"File", "Disk", "S3"}) =>
        LET Expected(path) ==
                IF backup_target = "File"
                  THEN "File('" \o backup_dir[1] \o "/" \o path \o "')"
                ELSE IF backup_target = "Disk"
                  THEN "Disk('" \o _disk[1] \o "', '" \o path \o "')"
                ELSE "S3('" \o _s3_endpoint[1] \o "/" \o path \o "', '"
                     \o _s3_access_key_id[1] \o "', '"
                     \o _s3_secret_access_key[1] \o "')"
        IN  /\ \A path \in {"2023", "2024"} :
                  /\ _get_backup_path(path).error = NoError
                  /\ Concat(_get_backup_path(path).clause) = Expected(path)
            /\ (IsCommand /\ Submitted # <<>>) =>
                  LET q == Submitted[1].query
                      to == CHOOSE i \in Positions(q, {"TO ", "FROM "}) : TRUE
                  IN  Concat(UpToBlank(q, to + 1))
                        = Expected(last.args[1].backup.path) \o " "

\* C6 witness: an S3 client that was also given a disk and a directory has
\* submitted a backup statement with the S3 clause of the spec's example.
C6_Witness ==
    /\ constructed = "yes"
    /\ backup_target = "S3"
    /\ _disk = Some("backup_disk")
    /\ backup_dir = Some("/backups")
    /\ last.op = "backup"
    /\ Submitted # <<>>
    /\ Concat(_get_backup_path("2024").clause)
         = "S3('https://s3.example.com/bucket/2024', 'AK', 'SK')"

\* C7: a backup or restore call whose statement is assembled without a
\* local error hands the session exactly one statement, the whole assembled
\* one; what execute returns is what the call returns, and what execute
\* raises is what the call raises, with no second execute.
C7_ExecuteOnceAndPassThrough ==
    (IsCommand /\ BuildQuery(LastCommand).error = NoError) =>
        /\ Len(Submitted) = 1
        /\ Submitted[1].query = BuildQuery(LastCommand).query
        /\ last.server # None
        /\ last.outcome.raised = last.server[1].raised
        /\ last.server[1].raised => last.outcome.error = last.server[1].error
        /\ ~last.server[1].raised => last.outcome.result = last.server[1].rows

\* C7 witness: a backup whose statement the server rejected.
C7_Witness ==
    /\ last.op = "backup"
    /\ Len(Submitted) = 1
    /\ last.server = Some(Raises("ServerError"))
    /\ last.outcome.raised
    /\ last.outcome.error.type = "ServerError"

\* C8: with a backup target outside File, Disk, S3, every backup and every
\* restore call fails with the invalid-target ValueError and submits nothing,
\* with or without a base backup.
C8_InvalidTargetSubmitsNothing ==
    (constructed = "yes" /\ backup_target \notin {"File", "Disk", "S3"}
       /\ IsCommand) =>
        /\ last.outcome.raised
        /\ last.outcome.error.type = "ValueError"
        /\ last.outcome.error.msg = "Invalid backup target"
        /\ Submitted = <<>>

\* C8 witness: a restore with a base backup on a client whose target is unset.
C8_Witness ==
    /\ constructed = "yes"
    /\ backup_target = "None"
    /\ last.op = "restore"
    /\ last.args[1].base_backup # None
    /\ last.outcome.raised
    /\ Submitted = <<>>

\* C9: a constructed Client has opened exactly one connection, and after any
\* calls, failed or not, that is still so: the statements of every call went
\* through the connection opened at construction.
C9_OneConnection ==
    constructed = "yes" =>
        /\ connections = 1
        /\ _client = 1
        /\ \A i \in DOMAIN Submitted : Submitted[i].conn = _client

\* C9 witness: a second call, after which the count is one, that failed on
\* the server.
C9_Witness ==
    /\ constructed = "yes"
    /\ ncalls >= 2
    /\ Len(Submitted) = 1
    /\ last.outcome.raised
    /\ connections = 1

\* C10: get_backup_status submits the one fixed query whatever the target
\* and the earlier calls, and returns the rows of the session as they are:
\* same rows, same order.
C10_StatusPassThrough ==
    last.op = "get_backup_status" =>
        /\ Len(Submitted) = 1
        /\ Submitted[1].query = <<"SELECT * FROM system.backups">>
        /\ last.outcome.raised = last.server[1].raised
        /\ ~last.server[1].raised => last.outcome.result = last.server[1].rows
        /\ last.server[1].raised => last.outcome.error = last.server[1].error

\* C10 witness: a status read, not the first call, that returned two
\* different rows in the session's order.
C10_Witness ==
    /\ last.op = "get_backup_status"
    /\ ncalls >= 2
    /\ last.server = Some(Returns(<<"r2", "r1">>))
    /\ last.outcome.result = <<"r2", "r1">>

====
